---------------------------- MODULE Spec2Model ----------------------------
(***************************************************************************)
(* A model of the VRStack installer (install.py): the component registry,  *)
(* the dependency resolver, the per-component drivers (check_installed,    *)
(* install) and the orchestrator (main, run_installation).                 *)
(*                                                                         *)
(* Several specifications share the variables:                             *)
(*   SpecResolve  resolve_dependencies over bounded registries/selections  *)
(*   SpecInstall  the component drivers called on bounded file systems     *)
(*   Spec         main() from argument parsing to the final report         *)
(*   SpecUninstall     uninstall called once and again on file systems     *)
(*   SpecRegistry      construction of the registry at import              *)
(*   SpecResolveTwice  two calls of resolve_dependencies in one process    *)
(*   SpecLoop          run_installation's loop over any Component class    *)
(*   SpecMainUninstall main() run with --uninstall                         *)
(***************************************************************************)
EXTENDS Integers, Sequences, FiniteSets, TLC

VARIABLES
    ALL_COMPONENTS, \* the registry: a sequence of component definitions
    pc,             \* position of the running program
    args,           \* the parsed command line
    distro,         \* detect_distro()'s value
    terminal,       \* what sys.stdin is, and whether /dev/tty can be opened
    selected,       \* main's selection / resolve_dependencies' argument
    ordered,        \* the plan returned by resolve_dependencies
    idx,            \* index of the plan entry the execution loop is at
    success,        \* run_installation's success flag
    events,         \* what the execution loop did, in order
    fs,             \* the paths that exist, among those the drivers read
    result,         \* what run_installation returned (or that it raised)
    message,        \* main's final report
    lastCall        \* the driver call that just returned; in Spec, the plan display

vars == <<ALL_COMPONENTS, pc, args, distro, terminal, selected, ordered, idx,
          success, events, fs, result, message, lastCall>>

(***************************************************************************)
(* Bounds of the model.                                                    *)
(***************************************************************************)
\* longest dependency list of a component of a generated registry
MaxDeps == 2
\* longest selection handed to resolve_dependencies
MaxSel == 2
\* most names given after --components
MaxArgs == 2
\* most tokens typed at the interactive selection prompt
MaxPick == 1

SeqsUpTo(S, n) == UNION {[1..k -> S] : k \in 0..n}

Range(s) == {s[i] : i \in DOMAIN s}

NoRepeat(s) == \A i, j \in DOMAIN s : s[i] = s[j] => i = j

Min(S) == CHOOSE x \in S : \A y \in S : x <= y

(***************************************************************************)
(* Enumerations.                                                           *)
(***************************************************************************)
Distro == {"UBUNTU", "DEBIAN", "FEDORA", "ARCH", "OPENSUSE", "UNKNOWN"}

ComponentStatus == {"NOT_INSTALLED", "INSTALLED", "UPDATE_AVAILABLE", "FAILED"}

(***************************************************************************)
(* Component definitions and the registry.                                 *)
(***************************************************************************)
Component(n, cat, req, deps) ==
    [name |-> n, category |-> cat, required |-> req, dependencies |-> deps]

\* Python's None, as get_component returns it
None == Component("None", "", FALSE, <<>>)

\* The registry install.py constructs
VRStackComponents ==
    << Component("xrlinuxdriver",  "core",     TRUE,  <<>>),
       Component("breezy-desktop", "core",     TRUE,  <<"xrlinuxdriver">>),
       Component("monado",         "core",     FALSE, <<"xrlinuxdriver">>),
       Component("opentrack",      "tracking", FALSE, <<>>),
       Component("stardust-xr",    "desktop",  FALSE, <<"monado">>),
       Component("vrto3d",         "gaming",   FALSE, <<"xrlinuxdriver">>),
       Component("depth3d",        "gaming",   FALSE, <<"xrlinuxdriver">>) >>

\* A name no registry holds
Ghost == "ghost"

get_component(name) ==
    LET hits == {i \in DOMAIN ALL_COMPONENTS : ALL_COMPONENTS[i].name = name}
    IN  IF hits = {} THEN None ELSE ALL_COMPONENTS[Min(hits)]

(***************************************************************************)
(* resolve_dependencies: depth-first visit with a visited set.  st holds   *)
(* the closure's two variables, result and visited.                        *)
(***************************************************************************)
RECURSIVE visit(_, _), visit_each(_, _)

\* a loop that goes through the names from the last to the first
visit_each_reversed(names, st) ==
    IF names = <<>> THEN st
    ELSE visit_each(SubSeq(names, 1, Len(names) - 1),
                    visit(names[Len(names)], st))

\* for name in names: visit(name)
visit_each(names, st) ==
    IF names = <<>> THEN st
    ELSE visit_each(Tail(names), visit(Head(names), st))

\* a resolver that appends the name before its dependencies
visit_preorder(name, st) ==
    IF name \in st.visited THEN st
    ELSE LET st1 == [st EXCEPT !.visited = @ \cup {name}]
             component == get_component(name)
         IN  IF component = None THEN st1
             ELSE visit_each(component.dependencies,
                             [st1 EXCEPT !.result = Append(@, name)])

\* a resolver whose visited test stops the recursion but not the append
visit_appends_visited(name, st) ==
    IF name \in st.visited
    THEN IF get_component(name) = None THEN st
         ELSE [st EXCEPT !.result = Append(@, name)]
    ELSE LET st1 == [st EXCEPT !.visited = @ \cup {name}]
             component == get_component(name)
         IN  IF component = None THEN st1
             ELSE LET st2 == visit_each(component.dependencies, st1)
                  IN  [st2 EXCEPT !.result = Append(@, name)]

\* a resolver that appends a name whether or not the registry has it
visit_keeps_unknown(name, st) ==
    IF name \in st.visited THEN st
    ELSE LET st1 == [st EXCEPT !.visited = @ \cup {name}]
             component == get_component(name)
         IN  IF component = None THEN [st1 EXCEPT !.result = Append(@, name)]
             ELSE LET st2 == visit_each(component.dependencies, st1)
                  IN  [st2 EXCEPT !.result = Append(@, name)]

\* the direct dependencies not yet visited, appended without recursion
RECURSIVE add_direct(_, _)
add_direct(deps, st) ==
    IF deps = <<>> THEN st
    ELSE add_direct(Tail(deps),
             IF Head(deps) \in st.visited THEN st
             ELSE [result |-> Append(st.result, Head(deps)),
                   visited |-> st.visited \cup {Head(deps)}])

\* a resolver that adds a component's direct dependencies only
visit_shallow(name, st) ==
    IF name \in st.visited THEN st
    ELSE LET st1 == [st EXCEPT !.visited = @ \cup {name}]
             component == get_component(name)
         IN  IF component = None THEN st1
             ELSE LET st2 == add_direct(component.dependencies, st1)
                  IN  [st2 EXCEPT !.result = Append(@, name)]

\* a resolver that moves a name met again to the end of the result
visit_moves_revisited(name, st) ==
    IF name \in st.visited
    THEN IF name \in Range(st.result)
         THEN [st EXCEPT !.result =
                   Append(SelectSeq(@, LAMBDA n : n # name), name)]
         ELSE st
    ELSE LET st1 == [st EXCEPT !.visited = @ \cup {name}]
             component == get_component(name)
         IN  IF component = None THEN st1
             ELSE LET st2 == visit_each(component.dependencies, st1)
                  IN  [st2 EXCEPT !.result = Append(@, name)]

visit(name, st) ==
    IF name \in st.visited THEN st
    ELSE LET st1 == [st EXCEPT !.visited = @ \cup {name}]
             component == get_component(name)
         IN  IF component = None THEN st1
             ELSE LET st2 == visit_each(component.dependencies, st1)
                  IN  [st2 EXCEPT !.result = Append(@, name)]

\* a resolver whose visited set outlives the call (a module-level set)
closure_keeps_visited(earlier) == [result |-> <<>>, visited |-> Range(earlier)]

\* result = [] and visited = set(): made anew by every call, whatever plan
\* an earlier call returned
closure_locals(earlier) == [result |-> <<>>, visited |-> {}]

\* a resolver that takes an empty selection to mean the whole registry
resolve_defaults_to_all(earlier, sel) ==
    visit_each(IF sel = <<>>
               THEN [i \in DOMAIN ALL_COMPONENTS |-> ALL_COMPONENTS[i].name]
               ELSE sel,
               closure_locals(earlier)).result

\* a resolver that puts the required components in front of the selection
resolve_injects_required(earlier, sel) ==
    visit_each(SelectSeq([i \in DOMAIN ALL_COMPONENTS |->
                             IF ALL_COMPONENTS[i].required
                             THEN ALL_COMPONENTS[i].name ELSE Ghost],
                         LAMBDA n : n # Ghost) \o sel,
               closure_locals(earlier)).result

\* a call of resolve_dependencies made after a call that returned earlier
resolve_dependencies_after(earlier, sel) ==
    visit_each(sel, closure_locals(earlier)).result

resolve_dependencies(sel) == resolve_dependencies_after(<<>>, sel)

(***************************************************************************)
(* The file system, as far as the drivers read it.  A path is <<directory, *)
(* name>>; fs is the set of paths that exist.  Only paths that some        *)
(* exists() or which() of install.py reads are tracked.                    *)
(***************************************************************************)
BIN_DIR == "~/.local/bin"

INSTALL_DIR == "~/.local/share/VRStack"

USR_BIN == "/usr/bin"

\* the directories shutil.which searches: the system's and the user's
PATH == {USR_BIN, BIN_DIR}

XR_CONFIG == <<"~/.config/xr_driver", "config.ini">>

RESHADE == <<INSTALL_DIR, "reshade-steam-proton">>

\* the three SteamVR drivers directories VRto3D.install looks for, in order
steamvr_locations ==
    << "~/.steam/steam/steamapps/common/SteamVR/drivers",
       "~/.local/share/Steam/steamapps/common/SteamVR/drivers",
       "~/.var/app/com.valvesoftware.Steam/.steam/steam/steamapps/common/SteamVR/drivers" >>

\* a directory itself, and the vrto3d driver directory inside it
Dir(d) == <<d, ".">>

Vrto3dIn(d) == <<d, "vrto3d">>

Paths ==
    {<<d, c>> : d \in PATH,
                c \in {"xr_driver_cli", "monado-service", "opentrack",
                       "stardust-xr-server"}}
    \cup {XR_CONFIG, RESHADE}
    \cup {Dir(d) : d \in Range(steamvr_locations)}
    \cup {Vrto3dIn(d) : d \in Range(steamvr_locations)}

\* a directory entry exists only inside an existing directory
Consistent(f) ==
    \A d \in Range(steamvr_locations) : Vrto3dIn(d) \in f => Dir(d) \in f

cmd_exists(cmd, f) == \E d \in PATH : <<d, cmd>> \in f

Installed(b) == IF b THEN "INSTALLED" ELSE "NOT_INSTALLED"

check_installed(name, f) ==
    CASE name = "xrlinuxdriver"  -> Installed(cmd_exists("xr_driver_cli", f))
      [] name = "breezy-desktop" -> Installed(XR_CONFIG \in f)
      [] name = "monado"         -> Installed(cmd_exists("monado-service", f))
      [] name = "opentrack"      -> Installed(cmd_exists("opentrack", f))
      [] name = "stardust-xr"    -> Installed(cmd_exists("stardust-xr-server", f))
      [] name = "vrto3d"         ->
             Installed(\/ Vrto3dIn(steamvr_locations[1]) \in f
                       \/ Vrto3dIn(steamvr_locations[3]) \in f)
      [] name = "depth3d"        -> Installed(RESHADE \in f)

(***************************************************************************)
(* External commands and file-system calls.  What a command does is not in *)
(* install.py: a command is modelled by how it ends (exit 0, another exit  *)
(* code, or its binary missing), each of which the environment may choose. *)
(* A command that does not exit 0 leaves the tracked paths as they were; a *)
(* command that exits 0 has produced what it is run for.                   *)
(***************************************************************************)
CmdBehaviour == {"zero", "nonzero", "missing"}

\* run(cmd, check, shell): with shell=True a missing binary is the shell's
\* exit code 127; without a shell subprocess raises FileNotFoundError.
run(b, shell, check) ==
    IF b = "missing" /\ ~shell THEN "FileNotFoundError"
    ELSE IF b # "zero" /\ check THEN "CalledProcessError"
    ELSE "returned"

\* consecutive run() calls, each cmds[i] = <<shell, check>>: how the block
\* ends, "completed" or the exception of the first call that raises
RECURSIVE TryCommands(_)
TryCommands(cmds) ==
    IF cmds = <<>> THEN {"completed"}
    ELSE UNION {LET r == run(b, Head(cmds)[1], Head(cmds)[2])
                IN  IF r = "returned" THEN TryCommands(Tail(cmds)) ELSE {r} :
                b \in CmdBehaviour}

Shell == <<TRUE, TRUE>>

ShellNoCheck == <<TRUE, FALSE>>

\* a pathlib / shutil call: it works or raises OSError
FsOp == {"ok", "OSError"}

\* get_package_manager(distro)[0] is non-empty
HasPackageManager(d) == d \in {"UBUNTU", "DEBIAN", "FEDORA", "ARCH", "OPENSUSE"}

\* install_packages: its possible return values
install_packages(d) ==
    IF ~HasPackageManager(d) THEN {FALSE}
    ELSE {r = "completed" : r \in TryCommands(<<Shell>>)}

\* clone_or_update: "True", "False", or the exception that escapes it
clone_or_update(destExists) ==
    {CASE r = "completed" -> "True"
       [] r = "CalledProcessError" -> "False"
       [] OTHER -> r :
     r \in TryCommands(IF destExists THEN << <<FALSE, TRUE>> >> ELSE <<Shell>>)}

\* a cache directory may or may not be there from an earlier run
clone_or_update_cache == UNION {clone_or_update(e) : e \in BOOLEAN}

(***************************************************************************)
(* install(distro, hardware) of each component.  Each operator gives the   *)
(* set of ways the call can end: ret is "True", "False" or "raise", fs the *)
(* file system it leaves, log the strategies it started with the result of *)
(* each ("ok", "failed", "raised").                                        *)
(***************************************************************************)
Ret(r, f, log) == [ret |-> r, fs |-> f, log |-> log]

Tried(log, s, r) == Append(log, [strategy |-> s, result |-> r])

XRLinuxDriver_install(d, f) ==
    UNION {IF r = "completed"
           THEN {Ret("True", f \cup {<<BIN_DIR, "xr_driver_cli">>} \cup cfg,
                     Tried(<<>>, "script", "ok")) :
                 cfg \in {{}, {XR_CONFIG}}}
           ELSE {Ret("False", f, Tried(<<>>, "script", "failed"))} :
           r \in TryCommands(<<Shell, Shell, Shell>>)}

BreezyDesktop_install(d, f) == {Ret("True", f, <<>>)}

\* mkdir the cache, clone_or_update, mkdir build, cmake / make / make install
\* with prefix ~/.local: shared by Monado._build_from_source and
\* OpenTrack.install
cmake_build(f, log, binary) ==
    LET End(r, g, res) == Ret(r, g, Tried(log, "source", res))
    IN  UNION {IF mk = "OSError" THEN {End("raise", f, "raised")}
               ELSE UNION {
                   CASE cl = "False" -> {End("False", f, "failed")}
                     [] cl = "True" ->
                          UNION {IF mk2 = "OSError"
                                 THEN {End("raise", f, "raised")}
                                 ELSE {IF b = "completed"
                                       THEN End("True", f \cup {<<BIN_DIR, binary>>}, "ok")
                                       ELSE End("False", f, "failed") :
                                       b \in TryCommands(<<Shell, Shell, Shell>>)} :
                                 mk2 \in FsOp}
                     [] OTHER -> {End("raise", f, "raised")} :
                   cl \in clone_or_update_cache} :
               mk \in FsOp}

Monado_build_from_source(d, f, log) ==
    UNION {cmake_build(f, log, "monado-service") :
           p \in IF d \in {"UBUNTU", "DEBIAN", "FEDORA"}
                 THEN install_packages(d) ELSE {FALSE}}

\* the package strategy of a distro: its commands, or <<>> when it has none
Monado_package_commands(d) ==
    CASE d \in {"UBUNTU", "DEBIAN"} -> <<Shell, Shell, Shell>>
      [] d \in {"FEDORA", "ARCH"}   -> <<Shell>>
      [] OTHER                      -> <<>>

\* an install that gives up when the package strategy fails
Monado_install_no_fallback(d, f) ==
    IF Monado_package_commands(d) # <<>>
    THEN {IF r = "completed"
          THEN Ret("True", f \cup {<<USR_BIN, "monado-service">>},
                   Tried(<<>>, "package", "ok"))
          ELSE Ret("False", f, Tried(<<>>, "package", "failed")) :
          r \in TryCommands(Monado_package_commands(d))}
    ELSE Monado_build_from_source(d, f, <<>>)

Monado_install(d, f) ==
    IF Monado_package_commands(d) # <<>>
    THEN UNION {IF r = "completed"
                THEN {Ret("True", f \cup {<<USR_BIN, "monado-service">>},
                          Tried(<<>>, "package", "ok"))}
                ELSE Monado_build_from_source(
                         d, f, Tried(<<>>, "package", "failed")) :
                r \in TryCommands(Monado_package_commands(d))}
    ELSE Monado_build_from_source(d, f, <<>>)

OpenTrack_install(d, f) ==
    UNION {cmake_build(f, <<>>, "opentrack") :
           p \in IF d \in {"UBUNTU", "DEBIAN", "FEDORA", "ARCH"}
                 THEN install_packages(d) ELSE {FALSE}}

\* the three repositories StardustXR._build_from_source builds, in order
StardustRepos ==
    << [dir_name |-> "stardust-server",    binary_name |-> "stardust-xr-server"],
       [dir_name |-> "stardust-flatland",  binary_name |-> "flatland"],
       [dir_name |-> "stardust-protostar", binary_name |-> "hexagon_launcher"] >>

\* dir_name.replace("-", "_")
Underscored(dir_name) ==
    CASE dir_name = "stardust-server"    -> "stardust_server"
      [] dir_name = "stardust-flatland"  -> "stardust_flatland"
      [] dir_name = "stardust-protostar" -> "stardust_protostar"

possible_names(repo) ==
    <<repo.binary_name, Underscored(repo.dir_name), repo.dir_name,
      "stardust-xr-server">>

dest_name(candidate) ==
    IF candidate = "stardust-xr-server" THEN "stardust-xr-server"
    ELSE IF candidate \in {"flatland", "hexagon_launcher"}
         THEN "stardust-xr-" \o candidate
         ELSE candidate

\* one pass of the loop over repos, from s = [success, fs, raised]; found is
\* the first of possible_names present in target/release, 0 when none is
build_repo(repo, s) ==
    LET Raise == [s EXCEPT !.raised = TRUE]
        Fail  == [s EXCEPT !.success = FALSE]
    IN  UNION {
            CASE cl = "False" -> {Fail}
              [] cl = "True" ->
                   UNION {IF b # "completed" THEN {Fail}
                          ELSE UNION {
                              IF found = 0 THEN {s}
                              ELSE {IF cp = "OSError" THEN Raise
                                    ELSE [s EXCEPT !.fs = @ \cup
                                             ({<<BIN_DIR, dest_name(possible_names(repo)[found])>>}
                                                  \cap Paths)] :
                                    cp \in FsOp} :
                              found \in 0..Len(possible_names(repo))} :
                          b \in TryCommands(<<Shell>>)}
              [] OTHER -> {Raise} :
            cl \in clone_or_update_cache}

\* the loop over repos[k..]: a raised pass ends the loop
RECURSIVE build_repos(_, _)
build_repos(k, S) ==
    IF k > Len(StardustRepos) THEN S
    ELSE build_repos(k + 1,
             UNION {IF s.raised THEN {s} ELSE build_repo(StardustRepos[k], s) :
                    s \in S})

StardustXR_build_from_source(d, f, log) ==
    LET End(r, g, res) == Ret(r, g, Tried(log, "source", res))
        \* cargo is on PATH, or rustup is run and works or fails
        cargo == {TRUE} \cup {r = "completed" : r \in TryCommands(<<Shell>>)}
        deps  == IF d \in {"UBUNTU", "DEBIAN", "FEDORA", "ARCH"}
                 THEN install_packages(d) ELSE {FALSE}
    IN  UNION {
            IF ~haveCargo THEN {End("False", f, "failed")}
            ELSE UNION {
                UNION {IF mk = "OSError" THEN {End("raise", f, "raised")}
                       ELSE {IF s.raised THEN End("raise", s.fs, "raised")
                             ELSE IF s.success THEN End("True", s.fs, "ok")
                             ELSE End("False", s.fs, "failed") :
                             s \in build_repos(1, {[success |-> TRUE, fs |-> f,
                                                    raised |-> FALSE]})} :
                       mk \in FsOp} :
                p \in deps} :
            haveCargo \in cargo}

StardustXR_install(d, f) ==
    IF d = "FEDORA"
    THEN UNION {IF r = "completed"
                THEN {Ret("True", f \cup {<<USR_BIN, "stardust-xr-server">>},
                          Tried(<<>>, "package", "ok"))}
                ELSE StardustXR_build_from_source(
                         d, f, Tried(<<>>, "package", "failed")) :
                r \in TryCommands(<<ShellNoCheck, Shell>>)}
    ELSE StardustXR_build_from_source(d, f, <<>>)

VRto3D_install(d, f) ==
    LET present == {i \in DOMAIN steamvr_locations :
                        Dir(steamvr_locations[i]) \in f}
        vrto3d_dest == Vrto3dIn(steamvr_locations[Min(present)])
        End(r, g, res) == Ret(r, g, Tried(<<>>, "source", res))
        deps == IF d \in {"UBUNTU", "DEBIAN", "FEDORA", "ARCH"}
                THEN install_packages(d) ELSE {FALSE}
        \* after the build: rmtree of an old driver, then copytree of the new
        Copy ==
            UNION {IF vrto3d_dest \in f /\ rm = "OSError"
                   THEN {End("raise", f, "raised")}
                   ELSE LET g == f \ {vrto3d_dest}
                        IN  UNION {
                                IF ~built THEN {End("False", g, "failed")}
                                ELSE UNION {
                                    IF cp = "OSError"
                                    THEN {End("raise", g, "raised"),
                                          End("raise", g \cup {vrto3d_dest}, "raised")}
                                    ELSE {End("True", g \cup {vrto3d_dest}, "ok")} :
                                    cp \in FsOp} :
                                built \in BOOLEAN} :
                   rm \in FsOp}
    IN  IF present = {} THEN {Ret("False", f, <<>>)}
        ELSE UNION {
            UNION {IF mk = "OSError" THEN {End("raise", f, "raised")}
                   ELSE UNION {
                       CASE cl = "False" -> {End("False", f, "failed")}
                         [] cl = "True" ->
                              UNION {IF b = "completed" THEN Copy
                                     ELSE {End("False", f, "failed")} :
                                     b \in TryCommands(<<Shell, Shell>>)}
                         [] OTHER -> {End("raise", f, "raised")} :
                       cl \in clone_or_update_cache} :
                   mk \in FsOp} :
            p \in deps}

Depth3D_install(d, f) ==
    LET End(r, g, res) == Ret(r, g, Tried(<<>>, "source", res))
    IN  UNION {
            UNION {IF mk = "OSError" THEN {End("raise", f, "raised")}
                   ELSE UNION {
                       CASE cl = "False" -> {End("False", f, "failed")}
                         [] cl = "True" ->
                              \* chmod, BIN_DIR.mkdir, write_text, chmod
                              {IF op = "OSError"
                               THEN End("raise", f \cup {RESHADE}, "raised")
                               ELSE End("True", f \cup {RESHADE}, "ok") :
                               op \in FsOp}
                         [] OTHER -> {End("raise", f, "raised")} :
                       cl \in clone_or_update(RESHADE \in f)} :
                   mk \in FsOp} :
            p \in install_packages(d)}

\* c.install(distro, hardware), dispatched on the component
install(name, d, f) ==
    CASE name = "xrlinuxdriver"  -> XRLinuxDriver_install(d, f)
      [] name = "breezy-desktop" -> BreezyDesktop_install(d, f)
      [] name = "monado"         -> Monado_install(d, f)
      [] name = "opentrack"      -> OpenTrack_install(d, f)
      [] name = "stardust-xr"    -> StardustXR_install(d, f)
      [] name = "vrto3d"         -> VRto3D_install(d, f)
      [] name = "depth3d"        -> Depth3D_install(d, f)

\* Component.configure, which no component overrides
configure(name) == TRUE

(***************************************************************************)
(* uninstall() of each component.  A target is a tracked path, or          *)
(* Untracked for the artifacts uninstall removes that nothing reads (the   *)
(* directory ~/.local/share/xr_driver, monado-cli, the Stardust clients,   *)
(* reshade-setup); others says whether those exist when the call is made.  *)
(* Each operator gives the set of ways the call can end: ret "True" or     *)
(* "raise", and the file system it leaves.                                 *)
(***************************************************************************)
Untracked == <<"?", "?">>

target_exists(t, f, others) == IF t = Untracked THEN others ELSE t \in f

\* an unlink or rmtree made without testing that the path exists
remove_unguarded(exists) == IF exists THEN FsOp ELSE {"OSError"}

\* if p.exists(): unlink / rmtree, and unlink(missing_ok=True)
remove_guarded(exists) == IF exists THEN FsOp ELSE {"skipped"}

\* for p in targets: remove p; an OSError ends the call
RECURSIVE remove_each(_, _, _)
remove_each(targets, f, others) ==
    IF targets = <<>> THEN {[ret |-> "True", fs |-> f]}
    ELSE LET t == Head(targets)
         IN  UNION {IF op = "OSError" THEN {[ret |-> "raise", fs |-> f]}
                    ELSE remove_each(Tail(targets), f \ {t}, others) :
                    op \in remove_guarded(target_exists(t, f, others))}

\* what uninstall of a component removes, in the order it does
uninstall_targets(name) ==
    CASE name = "xrlinuxdriver"  ->
             << <<BIN_DIR, "xr_driver_cli">>, Untracked, XR_CONFIG >>
      [] name = "breezy-desktop" -> <<>>
      [] name = "monado"         -> << <<BIN_DIR, "monado-service">>, Untracked >>
      [] name = "opentrack"      -> << <<BIN_DIR, "opentrack">> >>
      [] name = "stardust-xr"    ->
             << <<BIN_DIR, "stardust-xr-server">>, Untracked >>
      [] name = "vrto3d"         ->
             [i \in DOMAIN steamvr_locations |-> Vrto3dIn(steamvr_locations[i])]
      [] name = "depth3d"        -> <<Untracked>>

\* c.uninstall(), dispatched on the component.  Depth3D first calls
\* shutil.rmtree(..., ignore_errors=True), which never raises and may leave
\* the directory where it is.
uninstall(name, f, others) ==
    IF name = "depth3d"
    THEN UNION {remove_each(uninstall_targets(name), g, others) :
                g \in {f, f \ {RESHADE}}}
    ELSE remove_each(uninstall_targets(name), f, others)

\* no artifact of the component is there for uninstall to remove
artifacts_absent(name, f, others) ==
    /\ \A i \in DOMAIN uninstall_targets(name) :
           ~target_exists(uninstall_targets(name)[i], f, others)
    /\ name = "depth3d" => RESHADE \notin f

(***************************************************************************)
(* SpecResolve: resolve_dependencies applied to every selection of at most *)
(* MaxSel names over every registry of three components whose dependency   *)
(* lists hold at most MaxDeps distinct registered names.                   *)
(***************************************************************************)
RegNames == <<"A", "B", "C">>

DepLists == {d \in SeqsUpTo(Range(RegNames), MaxDeps) : NoRepeat(d)}

Registries ==
    {[i \in DOMAIN RegNames |->
          Component(RegNames[i], "core", i = 1, deps[i])] :
        deps \in [DOMAIN RegNames -> DepLists]}

Selections == SeqsUpTo(Range(RegNames) \cup {Ghost}, MaxSel)

Idle ==
    [op |-> "none", name |-> "", ret |-> "", log |-> <<>>, status |-> "",
     absent |-> FALSE, again |-> FALSE, answer |-> ""]

InitResolve ==
    /\ ALL_COMPONENTS \in Registries
    /\ selected \in Selections
    /\ pc = "resolve"
    /\ ordered = <<>>
    /\ args = [mode |-> "resolve", components |-> <<>>]
    /\ distro = "UNKNOWN"
    /\ terminal = "tty"
    /\ idx = 0
    /\ success = TRUE
    /\ events = <<>>
    /\ fs = {}
    /\ result = "none"
    /\ message = "none"
    /\ lastCall = Idle

ResolveCall ==
    /\ pc = "resolve"
    /\ ordered' = resolve_dependencies(selected)
    /\ pc' = "resolved"
    /\ UNCHANGED <<ALL_COMPONENTS, args, distro, terminal, selected, idx,
                   success, events, fs, result, message, lastCall>>

NextResolve == ResolveCall

SpecResolve == InitResolve /\ [][NextResolve]_vars

\* the names a registry gives its components
Registered == {ALL_COMPONENTS[i].name : i \in DOMAIN ALL_COMPONENTS}

\* every declared dependency is a registered name
DepsExist ==
    \A i \in DOMAIN ALL_COMPONENTS :
        Range(ALL_COMPONENTS[i].dependencies) \subseteq Registered

\* the names reachable from n in at least one and at most k dependency steps
RECURSIVE ReachWithin(_, _)
ReachWithin(n, k) ==
    IF k = 0 THEN {}
    ELSE LET direct == Range(get_component(n).dependencies)
         IN  direct \cup UNION {ReachWithin(m, k - 1) : m \in direct}

Acyclic ==
    \A n \in Registered : n \notin ReachWithin(n, Len(ALL_COMPONENTS))

WellFormed == DepsExist /\ Acyclic

\* C1: on a registry whose dependency names all exist and whose graph has no
\* cycle, the plan resolve_dependencies returns for any selection holds each
\* name at most once, and every declared dependency of a listed component
\* stands at an earlier position than the component.
C1_PlanOrdered ==
    (pc = "resolved" /\ WellFormed) =>
        /\ NoRepeat(ordered)
        /\ \A i \in DOMAIN ordered :
               \A dep \in Range(get_component(ordered[i]).dependencies) :
                   \E j \in 1..(i - 1) : ordered[j] = dep

\* a well-formed registry with a component of two dependencies, resolved from
\* a selection that starts with an unknown name, into a plan of all three
C1_Witness ==
    /\ pc = "resolved"
    /\ WellFormed
    /\ selected # <<>>
    /\ selected[1] = Ghost
    /\ Len(ordered) = 3
    /\ Len(get_component(ordered[3]).dependencies) = 2
    /\ get_component(ordered[2]).dependencies # <<>>

(***************************************************************************)
(* Spec: main().  Init is the program started on a machine: the command    *)
(* line, the distro detect_distro finds, what stdin is, and the file       *)
(* system.                                                                 *)
(***************************************************************************)
Args(minimal, full, list, components) ==
    [minimal |-> minimal, full |-> full, list |-> list,
     components |-> components]

\* names typed after --components
CliNames == {"opentrack", "stardust-xr", "vrto3d", Ghost}

\* the command lines: no option, or one of --minimal, --full, --list, or
\* --components with one to MaxArgs names (argparse nargs="+")
ArgSets ==
    {Args(FALSE, FALSE, FALSE, <<>>), Args(TRUE, FALSE, FALSE, <<>>),
     Args(FALSE, TRUE, FALSE, <<>>), Args(FALSE, FALSE, TRUE, <<>>)}
    \cup {Args(FALSE, FALSE, FALSE, c) : c \in SeqsUpTo(CliNames, MaxArgs) \ {<<>>}}

\* stdin is a terminal; stdin is a pipe and /dev/tty can be opened; stdin is
\* a pipe and /dev/tty cannot be opened
Terminals == {"tty", "pipe_tty", "pipe_notty"}

\* the distros main is started on: install() of every component does the same
\* on DEBIAN and ARCH as on UBUNTU, and on OPENSUSE as on UNKNOWN, up to the
\* number of commands of Monado's package strategy; SpecInstall has all six
MainDistros == {"UBUNTU", "FEDORA", "UNKNOWN"}

\* what may exist when main starts
MainInitPaths ==
    {<<BIN_DIR, "xr_driver_cli">>, Dir(steamvr_locations[1]),
     Dir(steamvr_locations[2])}

Init ==
    /\ ALL_COMPONENTS = VRStackComponents
    /\ args \in ArgSets
    /\ distro \in MainDistros
    /\ terminal \in Terminals
    /\ fs \in SUBSET MainInitPaths
    /\ pc = "main"
    /\ selected = <<>>
    /\ ordered = <<>>
    /\ idx = 0
    /\ success = TRUE
    /\ events = <<>>
    /\ result = "none"
    /\ message = "none"
    /\ lastCall = Idle

IsRequired(c) == c.required

IsOptional(c) == ~c.required

\* [c.name for c in comps]
NamesOf(comps) == [i \in DOMAIN comps |-> comps[i].name]

\* [c.name for c in ALL_COMPONENTS if c.required]
RequiredNames == NamesOf(SelectSeq(ALL_COMPONENTS, IsRequired))

\* [c.name for c in ALL_COMPONENTS if not c.required]
OptionalNames == NamesOf(SelectSeq(ALL_COMPONENTS, IsOptional))

\* [c.name for c in ALL_COMPONENTS]
AllNames == NamesOf(ALL_COMPONENTS)

\* list(set(xs)): the distinct elements of xs, in an order Python does not fix
ListOfSet(xs) ==
    {o \in [1..Cardinality(Range(xs)) -> Range(xs)] : Range(o) = Range(xs)}

(***************************************************************************)
(* interactive_select.  The line typed is modelled after split(): a        *)
(* sequence of tokens.  Typing 'all' selects the whole registry, which     *)
(* list(set(...)) may return in any of 7! orders; the inputs enumerated    *)
(* below leave that line out.                                              *)
(***************************************************************************)
Tokens == {"1", "9", "opentrack", Ghost}

\* input() raising EOFError, in place of the line read
EOF == <<"<EOF>">>

\* item.isdigit() and int(item), on the tokens enumerated
IsDigit(item) == item \in {"1", "9"}

IntOf(item) == CASE item = "1" -> 1 [] item = "9" -> 9

Choices == SeqsUpTo(Tokens, MaxPick)

RECURSIVE PickItems(_, _)
\* for item in choice.split(): ...
PickItems(items, sel) ==
    IF items = <<>> THEN sel
    ELSE LET item == Head(items)
             optional == OptionalNames
             next ==
                 IF IsDigit(item)
                 THEN LET i == IntOf(item) - 1
                      IN  IF 0 <= i /\ i < Len(optional)
                          THEN Append(sel, optional[i + 1]) ELSE sel
                 ELSE IF get_component(item) # None
                      THEN Append(sel, item) ELSE sel
         IN  PickItems(Tail(items), next)

\* the lists interactive_select can return; input is EOF or a choice
interactive_select(term, input) ==
    LET required == RequiredNames
    IN  IF term = "pipe_notty" \/ input = EOF THEN {required}
        ELSE IF input = <<"all">>
             THEN ListOfSet(AllNames)
             ELSE ListOfSet(PickItems(input, required))

\* main: --list prints the registry and returns
ListComponents ==
    /\ pc = "main"
    /\ args.list
    /\ message' = "list"
    /\ pc' = "done"
    /\ UNCHANGED <<ALL_COMPONENTS, args, distro, terminal, selected, ordered,
                   idx, success, events, fs, result, lastCall>>

\* the selection --minimal, --full or --components gives
flag_selection(a) ==
    IF a.minimal THEN RequiredNames
    ELSE IF a.full THEN AllNames
    ELSE a.components

\* main: determine what to install; an empty selection ends the program
Select ==
    /\ pc = "main"
    /\ ~args.list
    /\ IF args.minimal \/ args.full \/ args.components # <<>>
       THEN /\ selected' = flag_selection(args)
            /\ UNCHANGED terminal
       ELSE /\ \E input \in Choices \cup {EOF} :
                  selected' \in interactive_select(terminal, input)
            /\ terminal' = IF terminal = "pipe_tty" THEN "tty" ELSE terminal
    /\ IF selected' = <<>>
       THEN message' = "No components selected." /\ pc' = "done"
       ELSE UNCHANGED message /\ pc' = "plan"
    /\ UNCHANGED <<ALL_COMPONENTS, args, distro, ordered, idx, success,
                   events, fs, result, lastCall>>

\* the status the plan display shows for each entry of plan
displayed(plan, f) == [i \in DOMAIN plan |-> check_installed(plan[i], f)]

\* run_installation: resolve the plan and display it; lastCall.log keeps
\* the statuses displayed
Plan ==
    /\ pc = "plan"
    /\ ordered' = resolve_dependencies(selected)
    /\ IF \A i \in DOMAIN ordered' : get_component(ordered'[i]) # None
       THEN /\ pc' = "confirm"
            /\ lastCall' = [Idle EXCEPT !.op = "display",
                                        !.log = displayed(ordered', fs)]
       ELSE /\ pc' = "crash"
            /\ UNCHANGED lastCall
    /\ UNCHANGED <<ALL_COMPONENTS, args, distro, terminal, selected, idx,
                   success, events, fs, result, message>>

(***************************************************************************)
(* The confirmation prompt.  An answer is the line typed, a sequence of    *)
(* characters; strip() and lower() are applied to it.                      *)
(***************************************************************************)
Answers ==
    { <<>>, <<"y">>, <<"Y">>, <<" ", "y", " ">>, <<"n">>, <<"N">>,
      <<"y", "e", "s">> }

RECURSIVE lstrip(_)
lstrip(s) == IF s # <<>> /\ Head(s) = " " THEN lstrip(Tail(s)) ELSE s

RECURSIVE rstrip(_)
rstrip(s) ==
    IF s # <<>> /\ s[Len(s)] = " " THEN rstrip(SubSeq(s, 1, Len(s) - 1)) ELSE s

strip(s) == rstrip(lstrip(s))

LowerChar(c) ==
    CASE c = "Y" -> "y" [] c = "N" -> "n" [] c = "E" -> "e" [] c = "S" -> "s"
      [] OTHER -> c

lower(s) == [i \in DOMAIN s |-> LowerChar(s[i])]

\* a local variable read before any branch assigned it
Unbound == <<"<unbound>">>

\* the value of confirm at line 999; input is EOF or an answer
confirm_value(term, input) ==
    IF term = "tty"
    THEN IF input = EOF THEN <<"y">> ELSE lower(strip(input))
    ELSE IF term = "pipe_tty" THEN Unbound ELSE <<"y">>

\* a prompt that goes on whatever the answer
cancels_never(confirm) == FALSE

\* if confirm and confirm != 'y' and confirm != '': cancel
cancels(confirm) == confirm # <<>> /\ confirm # <<"y">>

\* what the user told the prompt: "n" when the prompt was shown on a
\* terminal and the line typed is n or N, blanks aside
answer_given(term, input) ==
    IF term = "tty" /\ input # EOF /\ lower(strip(input)) = <<"n">>
    THEN "n" ELSE ""

\* the confirmation prompt; lastCall.answer keeps what the user told it
Confirm ==
    /\ pc = "confirm"
    /\ \E input \in Answers \cup {EOF} :
          LET confirm == confirm_value(terminal, input)
          IN  /\ IF confirm = Unbound
                 THEN /\ result' = "raise"
                      /\ message' = "UnboundLocalError"
                      /\ pc' = "done"
                      /\ UNCHANGED <<idx, success>>
                 ELSE IF cancels(confirm)
                 THEN /\ result' = "False"
                      /\ pc' = "report"
                      /\ UNCHANGED <<message, idx, success>>
                 ELSE /\ success' = TRUE
                      /\ idx' = 1
                      /\ pc' = "loop"
                      /\ UNCHANGED <<message, result>>
              /\ lastCall' = [lastCall EXCEPT
                                 !.answer = answer_given(terminal, input)]
    /\ terminal' = IF terminal = "pipe_tty" THEN "tty" ELSE terminal
    /\ UNCHANGED <<ALL_COMPONENTS, args, distro, selected, ordered, events,
                   fs>>

(***************************************************************************)
(* The execution loop.  events records, per plan entry, what the loop did  *)
(* with it: the status check_installed gave, then a skip or the install    *)
(* call with what it returned, then the configure call if there was one.   *)
(***************************************************************************)
Event(op, name, status, ret) ==
    [op |-> op, name |-> name, status |-> status, ret |-> ret]

\* a loop that keeps the status the plan display showed
cached_status(name, f, shown) == shown

\* c.check_installed(), called anew when the loop reaches the entry; shown
\* is what the plan display showed for it
observed_status(name, f, shown) == check_installed(name, f)

\* a loop that calls configure whatever install returned
configures_always(ret) == TRUE

\* c.configure(hardware) is called in the else branch of
\* `if not c.install(distro, hardware)`
configures(ret) == ret = "True"

\* a loop that installs whatever the status
skips_never(status) == FALSE

\* if c.check_installed() == ComponentStatus.INSTALLED: continue
skips(status) == status = "INSTALLED"

\* a handler that forgets success = False when install raises
flag_after_forgets_raise(ok, ret) == IF ret = "False" THEN FALSE ELSE ok

\* success after the install call of one entry has ended with ret
flag_after(ok, ret) == IF ret = "True" THEN ok ELSE FALSE

\* a loop that returns at the first entry whose install does not succeed
next_entry_stops(i, ret) == IF ret = "True" THEN i + 1 ELSE Len(ordered) + 1

\* a loop without the except clause: an exception ends it
next_entry_uncaught(i, ret) == IF ret = "raise" THEN Len(ordered) + 1 ELSE i + 1

\* the for loop goes on to the next entry whatever install did
next_entry(i, ret) == i + 1

ProcessEntry ==
    /\ pc = "loop"
    /\ idx <= Len(ordered)
    /\ LET name   == ordered[idx]
           status == observed_status(name, fs, lastCall.log[idx])
       IN  IF skips(status)
           THEN /\ events' = Append(events, Event("skip", name, status, ""))
                /\ idx' = idx + 1
                /\ UNCHANGED <<fs, success>>
           ELSE \E r \in install(name, distro, fs) :
                  /\ fs' = r.fs
                  /\ success' = flag_after(success, r.ret)
                  /\ idx' = next_entry(idx, r.ret)
                  /\ events' =
                        IF configures(r.ret)
                        THEN events \o
                             << Event("install", name, status, r.ret),
                                Event("configure", name, status,
                                      IF configure(name) THEN "True" ELSE "False") >>
                        ELSE Append(events, Event("install", name, status, r.ret))
    /\ UNCHANGED <<ALL_COMPONENTS, pc, args, distro, terminal, selected,
                   ordered, result, message, lastCall>>

\* return success
Return ==
    /\ pc = "loop"
    /\ idx > Len(ordered)
    /\ result' = IF success THEN "True" ELSE "False"
    /\ pc' = "report"
    /\ UNCHANGED <<ALL_COMPONENTS, args, distro, terminal, selected, ordered,
                   idx, success, events, fs, message, lastCall>>

\* main: report what run_installation returned
Report ==
    /\ pc = "report"
    /\ message' = IF result = "True" THEN "Installation complete!"
                  ELSE "Installation completed with some errors."
    /\ pc' = "done"
    /\ UNCHANGED <<ALL_COMPONENTS, args, distro, terminal, selected, ordered,
                   idx, success, events, fs, result, lastCall>>

Next ==
    \/ ListComponents
    \/ Select
    \/ Plan
    \/ Confirm
    \/ ProcessEntry
    \/ Return
    \/ Report

Spec == Init /\ [][Next]_vars

(***************************************************************************)
(* SpecInstall: the drivers on their own.  install is called as its one    *)
(* caller calls it: on a registered component that check_installed does    *)
(* not report INSTALLED, on a machine of any distro.                       *)
(***************************************************************************)
\* what may exist before the installer first runs
InitPaths ==
    {Dir(steamvr_locations[i]) : i \in DOMAIN steamvr_locations}
    \cup {Vrto3dIn(steamvr_locations[2]), XR_CONFIG}

InitFS == {f \in SUBSET InitPaths : Consistent(f)}

InitInstall ==
    /\ ALL_COMPONENTS = VRStackComponents
    /\ fs \in InitFS
    /\ lastCall = Idle
    /\ pc = "driver"
    /\ selected = <<>>
    /\ ordered = <<>>
    /\ args = [mode |-> "driver", components |-> <<>>]
    /\ distro \in Distro
    /\ terminal = "tty"
    /\ idx = 0
    /\ success = TRUE
    /\ events = <<>>
    /\ result = "none"
    /\ message = "none"

DriverInstall ==
    /\ pc = "driver"
    /\ \E name \in Registered :
          /\ check_installed(name, fs) # "INSTALLED"
          /\ \E r \in install(name, distro, fs) :
                /\ fs' = r.fs
                /\ lastCall' = [op |-> "install", name |-> name,
                                ret |-> r.ret, log |-> r.log,
                                status |-> check_installed(name, fs),
                                absent |-> FALSE, again |-> FALSE,
                                answer |-> ""]
    /\ UNCHANGED <<ALL_COMPONENTS, pc, args, distro, terminal, selected,
                   ordered, idx, success, events, result, message>>

NextInstall == DriverInstall

SpecInstall == InitInstall /\ [][NextInstall]_vars

\* C7: no install lets a lower-level failure escape as an exception: whatever
\* step fails (a command exiting nonzero, a missing binary, a failing file
\* operation), install returns False instead of raising.
C7_InstallNeverRaises ==
    lastCall.op = "install" => lastCall.ret # "raise"

\* the fallback chain the claim names for a component on a distro
C8_Chain(name, d) ==
    IF \/ name = "monado" /\ d \in {"UBUNTU", "DEBIAN", "FEDORA", "ARCH"}
       \/ name = "stardust-xr" /\ d = "FEDORA"
    THEN <<"package", "source">>
    ELSE <<"source">>

\* C8: in the fallback chain of Monado (distro package, then source build) and
\* of Stardust XR (Terra packages on Fedora, then source build) the strategies
\* start in chain order, a later one starts if and only if the one before it
\* failed, none runs after a success, and install ends with the result of the
\* last strategy that ran.
C8_FallbackChain ==
    (lastCall.op = "install" /\ lastCall.name \in {"monado", "stardust-xr"}) =>
        LET log   == lastCall.log
            chain == C8_Chain(lastCall.name, distro)
            last  == log[Len(log)]
        IN  /\ Len(log) \in 1..Len(chain)
            /\ \A i \in DOMAIN log : log[i].strategy = chain[i]
            /\ \A i \in 1..(Len(log) - 1) : log[i].result = "failed"
            /\ Len(log) < Len(chain) => last.result # "failed"
            /\ lastCall.ret = (CASE last.result = "ok"     -> "True"
                                 [] last.result = "failed" -> "False"
                                 [] OTHER                  -> "raise")

\* Monado's package strategy failed, the source build ran and succeeded
C8_Witness ==
    /\ lastCall.op = "install"
    /\ lastCall.name = "monado"
    /\ lastCall.ret = "True"
    /\ Len(lastCall.log) = 2
    /\ lastCall.log[1] = [strategy |-> "package", result |-> "failed"]
    /\ lastCall.log[2] = [strategy |-> "source", result |-> "ok"]
    /\ <<BIN_DIR, "monado-service">> \in fs

\* C9: on every platform, UNKNOWN included, install never returns without
\* having attempted at least one installation strategy.
C9_AlwaysAttempts ==
    (lastCall.op = "install" /\ lastCall.ret \in {"True", "False"}) =>
        lastCall.log # <<>>

\* C10: whenever install returns success, check_installed on the same
\* component right afterwards returns INSTALLED.
C10_SuccessMeansInstalled ==
    (lastCall.op = "install" /\ lastCall.ret = "True") =>
        check_installed(lastCall.name, fs) = "INSTALLED"

(***************************************************************************)
(* Claims about main and run_installation, checked under Spec.             *)
(***************************************************************************)
\* the execution loop was entered (the prompt was answered with a go-ahead)
LoopStarted == idx >= 1

\* run_installation has returned
Returned == pc = "report"

EventsOf(n) == {i \in DOMAIN events : events[i].name = n}

InstallCalls(n) ==
    {i \in DOMAIN events : events[i].name = n /\ events[i].op = "install"}

\* what the run recorded for a component
Outcome(n) ==
    IF \E i \in EventsOf(n) : events[i].op = "skip" THEN "skipped"
    ELSE IF \E i \in InstallCalls(n) : events[i].ret = "True" THEN "success"
    ELSE IF InstallCalls(n) # {} THEN "failed"
    ELSE "none"

NoneFailed == \A i \in DOMAIN events : Outcome(events[i].name) # "failed"

\* C2: whichever entry point built the selection, every required component
\* is in the plan the execution loop runs.
C2_RequiredInPlan ==
    LoopStarted =>
        \A i \in DOMAIN ALL_COMPONENTS :
            ALL_COMPONENTS[i].required =>
                ALL_COMPONENTS[i].name \in Range(ordered)

\* C3: install is never called on a plan entry whose check_installed, made
\* when the entry is reached, returned INSTALLED: the entry is skipped, and
\* the loop goes on to the entries after it.
C3_InstalledIsSkipped ==
    /\ \A i \in DOMAIN events :
           events[i].status = "INSTALLED" => events[i].op = "skip"
    /\ (LoopStarted /\ Returned) =>
           \A k \in DOMAIN ordered : EventsOf(ordered[k]) # {}

\* an entry was skipped and the entry after it was installed
C3_Witness ==
    /\ Returned
    /\ \E i \in DOMAIN events :
          /\ i < Len(events)
          /\ events[i].op = "skip"
          /\ events[i].status = "INSTALLED"
          /\ events[i + 1].op = "install"

\* the components n depends on, directly or through others
TransDeps(n) == ReachWithin(n, Len(ALL_COMPONENTS))

\* y does not depend on x and shares no dependency with it
Independent(x, y) ==
    /\ x # y
    /\ x \notin TransDeps(y)
    /\ TransDeps(x) \cap TransDeps(y) = {}

\* C4: if X's install fails and an independent Y comes later in the plan, Y
\* is still processed: its install is called unless check_installed reports
\* it INSTALLED when it is reached, and when that install succeeds the run
\* records X failed, Y success, and returns False.
C4_FailureDoesNotStopIndependent ==
    (LoopStarted /\ Returned) =>
        \A i \in DOMAIN ordered :
            Outcome(ordered[i]) = "failed" =>
                \A j \in (i + 1)..Len(ordered) :
                    LET y == ordered[j]
                    IN  Independent(ordered[i], y) =>
                          /\ \/ InstallCalls(y) # {}
                             \/ \E e \in EventsOf(y) :
                                    /\ events[e].op = "skip"
                                    /\ events[e].status = "INSTALLED"
                          /\ (\E e \in InstallCalls(y) : events[e].ret = "True") =>
                                 /\ Outcome(y) = "success"
                                 /\ result = "False"

\* monado's install failed, opentrack's install after it succeeded
C4_Witness ==
    /\ Returned
    /\ Outcome("monado") = "failed"
    /\ Outcome("opentrack") = "success"
    /\ \E i \in InstallCalls("monado"), j \in InstallCalls("opentrack") : i < j
    /\ result = "False"

\* C5 as stated: run_installation returns True if and only if no component
\* recorded a failed install.
C5_TrueIffNoneFailed ==
    Returned => (result = "True" <=> NoneFailed)

\* C5 as amended: a run cancelled at the prompt returns False with nothing
\* installed or failed; any other run returns True if and only if no component
\* recorded a failed install.
C5_TrueIffNoneFailedUnlessCancelled ==
    Returned =>
        IF LoopStarted
        THEN result = "True" <=> NoneFailed
        ELSE result = "False" /\ events = <<>>

\* a run whose only failure is an install that raised, and that returned False
C5_Witness ==
    /\ Returned
    /\ LoopStarted
    /\ result = "False"
    /\ \E i \in DOMAIN events : events[i].op = "install" /\ events[i].ret = "raise"
    /\ \A i \in DOMAIN events : events[i].ret # "False"

\* the plan entries the loop has dealt with, in the order it did
RECURSIVE EntriesDone(_)
EntriesDone(ev) ==
    IF ev = <<>> THEN <<>>
    ELSE IF Head(ev).op \in {"skip", "install"}
         THEN <<Head(ev).name>> \o EntriesDone(Tail(ev))
         ELSE EntriesDone(Tail(ev))

\* C6: once the loop has started, the plan entries are reached in plan order
\* and each is skipped or has install called exactly once, whatever earlier
\* entries did; the loop ends only after the last entry.
C6_EveryEntryProcessed ==
    LoopStarted =>
        /\ idx <= Len(ordered) + 1
        /\ EntriesDone(events) = SubSeq(ordered, 1, idx - 1)
        /\ Returned => idx = Len(ordered) + 1

\* monado's install raised and stardust-xr, which depends on it, was installed
C6_Witness ==
    /\ Returned
    /\ \E i \in InstallCalls("monado"), j \in InstallCalls("stardust-xr") :
          /\ i < j
          /\ events[i].ret = "raise"

(***************************************************************************)
(* A second run of run_installation, started right after the first with    *)
(* the same selection, distro and hardware.  resolve_dependencies gives    *)
(* the same plan; the loop skips an entry without touching the file        *)
(* system, so the entries it reaches before the first install call are     *)
(* checked against the file system the first run left.                     *)
(***************************************************************************)
\* the plan entries on which an immediately following run calls install
\* first: the earliest entry check_installed does not report INSTALLED
rerun_first_install(plan, f) ==
    LET todo == {k \in DOMAIN plan : ~skips(check_installed(plan[k], f))}
    IN  IF todo = {} THEN 0 ELSE Min(todo)

\* C11: if a run ends with no component failed, an immediately following run
\* with the same selection calls install on no component.
C11_RerunInstallsNothing ==
    (Returned /\ LoopStarted /\ NoneFailed) =>
        rerun_first_install(resolve_dependencies(selected), fs) = 0

(***************************************************************************)
(* SpecUninstall: uninstall() called, any number of times, on machines     *)
(* that hold any of the artifacts the installs leave.                      *)
(***************************************************************************)
UninstallInitPaths ==
    {<<BIN_DIR, "xr_driver_cli">>, XR_CONFIG, <<BIN_DIR, "monado-service">>,
     <<USR_BIN, "monado-service">>, <<BIN_DIR, "opentrack">>, RESHADE,
     Dir(steamvr_locations[1]), Vrto3dIn(steamvr_locations[1]),
     Vrto3dIn(steamvr_locations[2])}

InitUninstall ==
    /\ ALL_COMPONENTS = VRStackComponents
    /\ fs \in {f \in SUBSET (UninstallInitPaths \cup {Dir(steamvr_locations[2])}) :
                  /\ Consistent(f)
                  /\ Dir(steamvr_locations[2]) \in f
                        <=> Vrto3dIn(steamvr_locations[2]) \in f}
    /\ lastCall = Idle
    /\ pc = "driver"
    /\ selected = <<>>
    /\ ordered = <<>>
    /\ args = [mode |-> "driver", components |-> <<>>]
    /\ distro = "UNKNOWN"
    /\ terminal = "tty"
    /\ idx = 0
    /\ success = TRUE
    /\ events = <<>>
    /\ result = "none"
    /\ message = "none"

\* c.uninstall() on any component, installed or not; again says that the
\* call before it was an uninstall of the same component that returned True,
\* after which none of its untracked artifacts is left
DriverUninstall ==
    /\ pc = "driver"
    /\ \E name \in Registered :
          LET again == /\ lastCall.op = "uninstall"
                       /\ lastCall.name = name
                       /\ lastCall.ret = "True"
          IN  \E others \in (IF again THEN {FALSE} ELSE BOOLEAN) :
                \E r \in uninstall(name, fs, others) :
                  /\ fs' = r.fs
                  /\ lastCall' = [op |-> "uninstall", name |-> name,
                                  ret |-> r.ret, log |-> <<>>,
                                  status |-> check_installed(name, fs),
                                  absent |-> artifacts_absent(name, fs, others),
                                  again |-> again, answer |-> ""]
    /\ UNCHANGED <<ALL_COMPONENTS, pc, args, distro, terminal, selected,
                   ordered, idx, success, events, result, message>>

NextUninstall == DriverUninstall

SpecUninstall == InitUninstall /\ [][NextUninstall]_vars

\* C12: an uninstall made right after an uninstall of the same component
\* that returned True, or made when no artifact of the component is there
\* (a component never installed), returns True without raising.
C12_UninstallTwiceSucceeds ==
    (lastCall.op = "uninstall" /\ (lastCall.again \/ lastCall.absent)) =>
        lastCall.ret = "True"

\* the second of two uninstalls of vrto3d in a row, the driver gone, the
\* call returning True
C12_Witness ==
    /\ lastCall.op = "uninstall"
    /\ lastCall.name = "vrto3d"
    /\ lastCall.again
    /\ lastCall.absent
    /\ lastCall.ret = "True"

\* C13: whenever uninstall is called on a component that reports INSTALLED
\* and returns True, check_installed right afterwards gives NOT_INSTALLED.
C13_UninstallMeansNotInstalled ==
    (/\ lastCall.op = "uninstall"
     /\ lastCall.status = "INSTALLED"
     /\ lastCall.ret = "True") =>
        check_installed(lastCall.name, fs) = "NOT_INSTALLED"

(***************************************************************************)
(* SpecRegistry: the module-level construction of ALL_COMPONENTS, over     *)
(* component lists that may repeat a name or declare a dependency nothing  *)
(* in the list has, followed by the first use of the registry.             *)
(***************************************************************************)
\* lists of three components named A or B, each with at most one dependency
\* among A, B and a name nothing has
AnyRegistries ==
    {[i \in DOMAIN RegNames |-> Component(n[i], "core", i = 1, d[i])] :
        n \in [DOMAIN RegNames -> {"A", "B"}],
        d \in [DOMAIN RegNames -> {<<>>, <<"A">>, <<"B">>, <<Ghost>>}]}

InitRegistry ==
    /\ ALL_COMPONENTS = <<>>
    /\ selected \in Selections
    /\ pc = "import"
    /\ ordered = <<>>
    /\ args = [mode |-> "resolve", components |-> <<>>]
    /\ distro = "UNKNOWN"
    /\ terminal = "tty"
    /\ idx = 0
    /\ success = TRUE
    /\ events = <<>>
    /\ fs = {}
    /\ result = "none"
    /\ message = "none"
    /\ lastCall = Idle

\* ALL_COMPONENTS = [...]: the list is built as written, nothing is checked
Construct ==
    /\ pc = "import"
    /\ ALL_COMPONENTS' \in AnyRegistries
    /\ pc' = "resolve"
    /\ UNCHANGED <<args, distro, terminal, selected, ordered, idx, success,
                   events, fs, result, message, lastCall>>

NextRegistry == Construct \/ ResolveCall

SpecRegistry == InitRegistry /\ [][NextRegistry]_vars

UniqueNames ==
    \A i, j \in DOMAIN ALL_COMPONENTS :
        ALL_COMPONENTS[i].name = ALL_COMPONENTS[j].name => i = j

\* C14: constructing the registry fails, before any installation activity,
\* if two components share a name or a component declares a dependency no
\* registered component has: a registry in use has neither.
C14_MalformedRegistryRejected ==
    pc \in {"resolve", "resolved"} => (UniqueNames /\ DepsExist)

(***************************************************************************)
(* Further claims about resolve_dependencies, checked under SpecResolve,   *)
(* whose registries include self-dependencies and dependency cycles.       *)
(***************************************************************************)
\* the registered names the selection reaches: those it holds and those they
\* depend on, directly or through others
ReachableFrom(sel) ==
    LET roots == Range(sel) \cap Registered
    IN  roots \cup UNION {ReachWithin(n, Len(ALL_COMPONENTS)) : n \in roots}

\* C15: on every registry, with a self-dependency or a dependency cycle or
\* without, resolve_dependencies returns (a list no longer than the
\* registry), and each registered component the selection reaches stands
\* exactly once in what it returns.
C15_TerminatesEachOnce ==
    /\ pc = "resolve" =>
           Len(resolve_dependencies(selected)) \in 0..Len(ALL_COMPONENTS)
    /\ pc = "resolved" =>
           \A n \in ReachableFrom(selected) :
               Cardinality({i \in DOMAIN ordered : ordered[i] = n}) = 1

\* a registry with a component that depends on itself and a cycle through
\* the other two, resolved into a plan of all three
C15_Witness ==
    /\ pc = "resolved"
    /\ \E i \in DOMAIN ALL_COMPONENTS :
          ALL_COMPONENTS[i].name \in Range(ALL_COMPONENTS[i].dependencies)
    /\ \E n, m \in Registered :
          n # m /\ m \in ReachWithin(n, 1) /\ n \in ReachWithin(m, 1)
    /\ Len(selected) = 1
    /\ Len(ordered) = 3

IsKnown(name) == get_component(name) # None

\* C16: names the registry does not have never make resolution fail and
\* never stand in the plan: the plan of a selection is the plan of the
\* selection with the unknown names taken out.
C16_UnknownNamesDropped ==
    pc = "resolved" =>
        /\ ordered = resolve_dependencies(SelectSeq(selected, IsKnown))
        /\ \A i \in DOMAIN ordered : IsKnown(ordered[i])

\* the selection ["ghost", "A"] on a registry where A has no dependency,
\* resolved to ["A"]
C16_Witness ==
    /\ pc = "resolved"
    /\ selected = <<Ghost, "A">>
    /\ ordered = <<"A">>

\* C17: on a well-formed registry the plan, taken as a selection, resolves
\* to itself: the same names in the same order.
C17_ResolveIdempotent ==
    (pc = "resolved" /\ WellFormed) =>
        resolve_dependencies(ordered) = ordered

\* a chain of three components resolved from its last link alone
C17_Witness ==
    /\ pc = "resolved"
    /\ WellFormed
    /\ Len(selected) = 1
    /\ Len(ordered) = 3
    /\ get_component(ordered[2]).dependencies = <<ordered[1]>>
    /\ get_component(ordered[3]).dependencies = <<ordered[2]>>
    /\ resolve_dependencies(ordered) = ordered

(***************************************************************************)
(* SpecResolveTwice: resolve_dependencies called twice with the same       *)
(* selection, on the registry of install.py or a generated one.  Nothing   *)
(* is installed at the first call; between the calls any of the paths      *)
(* check_installed reads may appear.                                       *)
(***************************************************************************)
InitResolveTwice ==
    /\ \/ /\ ALL_COMPONENTS = VRStackComponents
          /\ selected \in SeqsUpTo(Range(NamesOf(VRStackComponents)) \cup {Ghost},
                                   MaxSel)
       \/ /\ ALL_COMPONENTS \in Registries
          /\ selected \in Selections
    /\ pc = "resolve"
    /\ ordered = <<>>
    /\ args = [mode |-> "resolve", components |-> <<>>]
    /\ distro = "UNKNOWN"
    /\ terminal = "tty"
    /\ idx = 0
    /\ success = TRUE
    /\ events = <<>>
    /\ fs = {}
    /\ result = "none"
    /\ message = "none"
    /\ lastCall = Idle

\* the second call; lastCall.log keeps the plan the first call returned
ResolveAgain ==
    /\ pc = "resolved"
    /\ fs' \in IF ALL_COMPONENTS = VRStackComponents
               THEN SUBSET MainInitPaths ELSE {fs}
    /\ lastCall' = [Idle EXCEPT !.op = "resolve", !.log = ordered]
    /\ ordered' = resolve_dependencies_after(ordered, selected)
    /\ pc' = "resolved_again"
    /\ UNCHANGED <<ALL_COMPONENTS, args, distro, terminal, selected, idx,
                   success, events, result, message>>

NextResolveTwice == ResolveCall \/ ResolveAgain

SpecResolveTwice == InitResolveTwice /\ [][NextResolveTwice]_vars

MethodOutcomes == {"True", "False", "raise"}

InitLoop ==
    /\ ALL_COMPONENTS \in Registries
    /\ WellFormed
    /\ selected = NamesOf(ALL_COMPONENTS)
    /\ ordered = resolve_dependencies(selected)
    /\ pc = "loop"
    /\ idx = 1
    /\ success = TRUE
    /\ args = [mode |-> "loop", components |-> <<>>]
    /\ distro = "UNKNOWN"
    /\ terminal = "tty"
    /\ events = <<>>
    /\ fs = {}
    /\ result = "none"
    /\ message = "none"
    /\ lastCall = Idle

\* success after c.configure(hardware), called inside the try block, has
\* ended with cret: its return value is dropped, an exception is caught by
\* the handler that sets success = False
flag_after_configure(ok, cret) == IF cret = "raise" THEN FALSE ELSE ok

\* one pass of the for loop over a component of any class
ProcessEntryAny ==
    /\ pc = "loop"
    /\ idx <= Len(ordered)
    /\ LET name == ordered[idx]
       IN  \E status \in {"INSTALLED", "NOT_INSTALLED"} :
             IF skips(status)
             THEN /\ events' = Append(events, Event("skip", name, status, ""))
                  /\ idx' = idx + 1
                  /\ UNCHANGED success
             ELSE \E ret \in MethodOutcomes :
                    /\ idx' = next_entry(idx, ret)
                    /\ IF configures(ret)
                       THEN \E cret \in MethodOutcomes :
                              /\ success' = flag_after_configure(
                                                flag_after(success, ret), cret)
                              /\ events' = events \o
                                    << Event("install", name, status, ret),
                                       Event("configure", name, status, cret) >>
                       ELSE /\ success' = flag_after(success, ret)
                            /\ events' = Append(events,
                                               Event("install", name, status, ret))
    /\ UNCHANGED <<ALL_COMPONENTS, pc, args, distro, terminal, selected,
                   ordered, fs, result, message, lastCall>>

NextLoop == ProcessEntryAny \/ Return

SpecLoop == InitLoop /\ [][NextLoop]_vars

\* C19: a configure that returns False or raises after a successful install
\* does not flip the result: run_installation returns what it would have
\* returned had configure succeeded, True exactly when no install failed.
C19_ConfigureFailureNotFatal ==
    Returned =>
        (result = "True" <=>
            \A i \in DOMAIN events :
                events[i].op = "install" => events[i].ret = "True")

(***************************************************************************)
(* The outcome an install invocation reports, checked under Spec.          *)
(***************************************************************************)
\* C20: an install invocation (not --list) that has ended reported exactly
\* one of three outcomes: "No components selected." exactly when the
\* selection is empty, "Installation complete!" only when run_installation
\* returned True, "Installation completed with some errors." only when it
\* returned False.
C20_OneOfThreeOutcomes ==
    (pc \in {"done", "crash"} /\ ~args.list) =>
        /\ message \in { "No components selected.",
                         "Installation complete!",
                         "Installation completed with some errors." }
        /\ message = "No components selected." <=> selected = <<>>
        /\ message = "Installation complete!" => result = "True"
        /\ message = "Installation completed with some errors." =>
               result = "False"

(***************************************************************************)
(* SpecMainUninstall: main() run with --uninstall, from the first pass of  *)
(* its loop over the registry to its return, on machines that hold any of  *)
(* the artifacts the installs leave.                                       *)
(***************************************************************************)
InitMainUninstall ==
    /\ ALL_COMPONENTS = VRStackComponents
    /\ fs \in {f \in SUBSET (UninstallInitPaths \cup {Dir(steamvr_locations[2])}) :
                  /\ Consistent(f)
                  /\ Dir(steamvr_locations[2]) \in f
                        <=> Vrto3dIn(steamvr_locations[2]) \in f}
    /\ pc = "uninstall"
    /\ idx = 1
    /\ args = [mode |-> "uninstall", components |-> <<>>]
    /\ selected = <<>>
    /\ ordered = <<>>
    /\ distro = "UNKNOWN"
    /\ terminal = "tty"
    /\ success = TRUE
    /\ events = <<>>
    /\ result = "none"
    /\ message = "none"
    /\ lastCall = Idle

\* one pass of `for c in ALL_COMPONENTS`: uninstall is called when the
\* component reports INSTALLED; the call is not in a try block, so an
\* exception it raises ends main with a traceback
UninstallEntry ==
    /\ pc = "uninstall"
    /\ idx <= Len(ALL_COMPONENTS)
    /\ LET name   == ALL_COMPONENTS[idx].name
           status == check_installed(name, fs)
       IN  IF status = "INSTALLED"
           THEN \E others \in BOOLEAN :
                  \E r \in uninstall(name, fs, others) :
                    /\ fs' = r.fs
                    /\ events' = Append(events,
                                        Event("uninstall", name, status, r.ret))
                    /\ IF r.ret = "raise"
                       THEN /\ pc' = "done"
                            /\ result' = "raise"
                            /\ message' = "OSError"
                            /\ UNCHANGED idx
                       ELSE /\ idx' = idx + 1
                            /\ UNCHANGED <<pc, result, message>>
           ELSE /\ events' = Append(events, Event("pass", name, status, ""))
                /\ idx' = idx + 1
                /\ UNCHANGED <<fs, pc, result, message>>
    /\ UNCHANGED <<ALL_COMPONENTS, args, distro, terminal, selected, ordered,
                   success, lastCall>>

\* print("Done!"); return
UninstallDone ==
    /\ pc = "uninstall"
    /\ idx > Len(ALL_COMPONENTS)
    /\ message' = "Done!"
    /\ pc' = "done"
    /\ UNCHANGED <<ALL_COMPONENTS, args, distro, terminal, selected, ordered,
                   idx, success, events, fs, result, lastCall>>

NextMainUninstall == UninstallEntry \/ UninstallDone

SpecMainUninstall == InitMainUninstall /\ [][NextMainUninstall]_vars

\* C21: a --uninstall run that has ended went through every component of
\* the registry, called uninstall on those that reported INSTALLED and on no
\* other, called neither install nor configure, and reported completion
\* whatever the uninstall calls did.
C21_UninstallAllReportsDone ==
    pc = "done" =>
        /\ message = "Done!"
        /\ Len(events) = Len(ALL_COMPONENTS)
        /\ \A i \in DOMAIN events :
              /\ events[i].name = ALL_COMPONENTS[i].name
              /\ events[i].op \in {"uninstall", "pass"}
              /\ events[i].op = "uninstall" <=> events[i].status = "INSTALLED"

(***************************************************************************)
(* Sequencing of the driver calls, checked under SpecLoop: the loop of      *)
(* run_installation over the plan of every well-formed generated registry, *)
(* whatever the components' methods do.  install.py starts no thread and   *)
(* no background process (every command goes through the blocking          *)
(* subprocess.run), so a call has returned before the next is made and     *)
(* events lists the calls in the order they ran.                           *)
(***************************************************************************)
\* the positions of events at which the processing of component n was over
ProcessedBy(n) ==
    {i \in DOMAIN events :
        /\ events[i].name = n
        /\ \/ events[i].op = "skip"
           \/ events[i].op = "configure"
           \/ events[i].op = "install" /\ events[i].ret # "True"}

\* the direct dependencies of the component called name
DepsOf(name) == Range(get_component(name).dependencies)

\* C22: the driver calls of a run that has returned were strictly sequential
\* (events only grows, so the whole run is in it): the events of one
\* component are next to each other (a configure comes right after the
\* successful install of the same component), and when a component's install
\* begins, the processing (skip, or install plus configure) of each of its
\* dependencies in the plan is over.
C22_StrictlySequential ==
    (LoopStarted /\ Returned) =>
        \A i \in DOMAIN events :
            /\ events[i].op = "configure" =>
                   /\ i > 1
                   /\ events[i - 1].op = "install"
                   /\ events[i - 1].name = events[i].name
                   /\ events[i - 1].ret = "True"
            /\ \A j \in (i + 2)..Len(events) :
                   events[i].name = events[j].name =>
                       events[j - 1].name = events[i].name
            /\ events[i].op = "install" =>
                   \A d \in DepsOf(events[i].name) \cap Range(ordered) :
                       \E j \in 1..(i - 1) : j \in ProcessedBy(d)

\* a component with two dependencies whose install began after one of them
\* was installed and configured and the other was skipped
C22_Witness ==
    /\ Returned
    /\ \E n \in Range(ordered) :
          /\ Len(get_component(n).dependencies) = 2
          /\ \E i \in InstallCalls(n) :
                /\ \E j \in ProcessedBy(get_component(n).dependencies[1]) :
                       j < i /\ events[j].op = "configure"
                /\ \E j \in ProcessedBy(get_component(n).dependencies[2]) :
                       j < i /\ events[j].op = "skip"

(***************************************************************************)
(* More claims about resolve_dependencies, checked under SpecResolve.      *)
(***************************************************************************)
\* C23: on every registry, resolve_dependencies applied to the empty
\* selection returns the empty plan.
C23_EmptySelectionEmptyPlan ==
    /\ resolve_dependencies(<<>>) = <<>>
    /\ (pc = "resolved" /\ selected = <<>>) => ordered = <<>>

\* the empty selection resolved on a registry whose three components all
\* have dependencies
C23_Witness ==
    /\ pc = "resolved"
    /\ selected = <<>>
    /\ ordered = <<>>
    /\ \A i \in DOMAIN ALL_COMPONENTS : ALL_COMPONENTS[i].dependencies # <<>>

\* The reference traversal, written with an explicit stack instead of
\* recursion.  A stack entry is <<"enter", n>>, n still to be looked at, or
\* <<"exit", n>>, the dependencies of n done and n to be appended.
RECURSIVE reference_walk(_, _, _)
reference_walk(stack, out, seen) ==
    IF stack = <<>> THEN out
    ELSE LET top  == Head(stack)
             rest == Tail(stack)
             n    == top[2]
         IN  IF top[1] = "exit"
             THEN reference_walk(rest, Append(out, n), seen)
             ELSE IF n \in seen
             THEN reference_walk(rest, out, seen)
             ELSE IF get_component(n) = None
             THEN reference_walk(rest, out, seen \cup {n})
             ELSE LET deps == get_component(n).dependencies
                  IN  reference_walk(
                          [i \in DOMAIN deps |-> <<"enter", deps[i]>>]
                              \o << <<"exit", n>> >> \o rest,
                          out, seen \cup {n})

\* depth-first post-order from the selected names in the caller's order
reference_postorder(sel) ==
    reference_walk([i \in DOMAIN sel |-> <<"enter", sel[i]>>], <<>>, {})

\* the registry A (deps []), B (deps [A]), C (deps [A, B])
ExampleRegistry ==
    << Component("A", "core", TRUE,  <<>>),
       Component("B", "core", FALSE, <<"A">>),
       Component("C", "core", FALSE, <<"A", "B">>) >>

\* C24: on every registry and selection resolve_dependencies returns what
\* the reference depth-first post-order traversal returns (names in the
\* caller's order, a name marked visited before its dependencies are
\* expanded in declared order, then appended); on the registry A, B (deps
\* [A]), C (deps [A, B]) the selection ["C"] resolves to ["A", "B", "C"].
C24_ReferencePostOrder ==
    pc = "resolved" =>
        /\ ordered = reference_postorder(selected)
        /\ (ALL_COMPONENTS = ExampleRegistry /\ selected = <<"C">>) =>
               ordered = <<"A", "B", "C">>

\* the example registry resolved from ["C"]
C24_Witness ==
    /\ pc = "resolved"
    /\ ALL_COMPONENTS = ExampleRegistry
    /\ selected = <<"C">>
    /\ ordered = <<"A", "B", "C">>

\* C25: the names of the plan are exactly the registered components the
\* selection reaches through dependency edges: the selected registered names
\* and their transitive dependencies, nothing else; a required component
\* the selection does not reach is not put in.
C25_PlanIsReachableSet ==
    pc = "resolved" =>
        /\ Range(ordered) = ReachableFrom(selected)
        /\ \A i \in DOMAIN ALL_COMPONENTS :
              (/\ ALL_COMPONENTS[i].required
               /\ ALL_COMPONENTS[i].name \notin ReachableFrom(selected)) =>
                  ALL_COMPONENTS[i].name \notin Range(ordered)

\* C is selected and depends on B alone; the required component A, which
\* neither reaches, is not in the plan
C25_Witness ==
    /\ pc = "resolved"
    /\ selected = <<"C">>
    /\ get_component("A").required
    /\ get_component("C").dependencies = <<"B">>
    /\ get_component("B").dependencies = <<>>
    /\ ordered = <<"B", "C">>

\* sel with every occurrence of a name after its first taken out
first_occurrences(sel) ==
    LET keep == {i \in DOMAIN sel : \A j \in 1..(i - 1) : sel[j] # sel[i]}
        F[k \in 0..Len(sel)] ==
            IF k = 0 THEN <<>>
            ELSE IF k \in keep THEN Append(F[k - 1], sel[k]) ELSE F[k - 1]
    IN  F[Len(sel)]

\* sel with x put in so that it stands at position p
InsertAt(sel, p, x) ==
    SubSeq(sel, 1, p - 1) \o <<x>> \o SubSeq(sel, p, Len(sel))

\* C27: duplicate names in a selection are dropped, the first occurrence
\* fixing the position: the plan of a selection is the plan of the selection
\* with the later occurrences of every name removed, and repeating a name of
\* the selection anywhere after its first occurrence leaves the plan as it
\* is.
C27_DuplicatesDropped ==
    pc = "resolved" =>
        /\ ordered = resolve_dependencies(first_occurrences(selected))
        /\ \A i \in DOMAIN selected :
              \A p \in (i + 1)..(Len(selected) + 1) :
                  LET again == InsertAt(selected, p, selected[i])
                  IN  /\ first_occurrences(again) = first_occurrences(selected)
                      /\ resolve_dependencies(again) = ordered

\* a selection that names C twice, resolved to a plan where C stands once,
\* after its dependency
C27_Witness ==
    /\ pc = "resolved"
    /\ selected = <<"C", "C">>
    /\ ordered = <<"A", "C">>

(***************************************************************************)
(* More claims about main and run_installation, checked under Spec.        *)
(***************************************************************************)
\* C28: the confirmation step of run_installation always ends with a
\* decision and never raises: from the prompt the run either enters the
\* execution loop (proceed) or returns False (cancel), whatever stdin is,
\* whether /dev/tty opens, and whatever is read.
C28_ConfirmAlwaysDecides ==
    [][pc = "confirm" =>
           \/ pc' = "loop" /\ idx' = 1
           \/ pc' = "report" /\ result' = "False"]_vars

\* C29: every name of the plan run_installation works through is the name
\* of a registered component, so get_component finds a component for each
\* entry in the plan-display loop (the plan as it stands at the prompt) and
\* in the execution loop (the entries a returned run went through), for
\* every selection, one with unknown names included.
C29_PlanNamesRegistered ==
    /\ pc # "crash"
    /\ pc = "confirm" =>
           \A i \in DOMAIN ordered : get_component(ordered[i]) # None
    /\ Returned =>
           \A i \in DOMAIN events : get_component(events[i].name) # None

\* a run asked for an unknown name and a known one, which displayed its plan
\* and went through the execution loop
C29_Witness ==
    /\ Returned
    /\ LoopStarted
    /\ Ghost \in Range(selected)
    /\ ordered # <<>>
    /\ Len(EntriesDone(events)) = Len(ordered)

\* C26: a component's status is not cached within a run: when the loop
\* reaches a plan entry, the status it acts on is the one check_installed
\* gives on the file system as the earlier entries left it, and the entry is
\* skipped exactly when that status is INSTALLED, whatever the plan display
\* showed.
C26_StatusNotCached ==
    [][(pc = "loop" /\ idx' = idx + 1) =>
           LET e   == events'[Len(events) + 1]
               now == check_installed(ordered[idx], fs)
           IN  /\ e.name = ordered[idx]
               /\ e.status = now
               /\ e.op = "skip" <=> now = "INSTALLED"]_vars

\* the plan display showed breezy-desktop as not installed, the install of
\* xrlinuxdriver then left config.ini, and breezy-desktop was skipped
C26_Witness ==
    /\ Returned
    /\ Len(events) >= 3
    /\ ordered[2] = "breezy-desktop"
    /\ lastCall.log[2] = "NOT_INSTALLED"
    /\ events[1] = Event("install", "xrlinuxdriver", "NOT_INSTALLED", "True")
    /\ events[3] = Event("skip", "breezy-desktop", "INSTALLED", "")

\* C30 is checked under SpecLoop.
\* the positions of events at which configure was called for component n
ConfigureCalls(n) ==
    {i \in DOMAIN events : events[i].name = n /\ events[i].op = "configure"}

\* C30: in a run that has returned (events only grows, so the whole run is
\* in it), configure was called for a component if and only if its install
\* was called and returned True; it was called at most once, right after
\* that install returned, and never for a component that was skipped or
\* whose install failed.
C30_ConfigureIffInstalled ==
    Returned =>
        \A i \in DOMAIN events :
            LET e == events[i]
            IN  /\ e.op = "configure" =>
                       /\ i > 1
                       /\ events[i - 1] = Event("install", e.name, e.status, "True")
                       /\ \A j \in ConfigureCalls(e.name) : j = i
                /\ (e.op = "install" /\ e.ret = "True") =>
                       /\ i < Len(events)
                       /\ events[i + 1].op = "configure"
                       /\ events[i + 1].name = e.name
                /\ (e.op = "skip" \/ (e.op = "install" /\ e.ret # "True")) =>
                       ConfigureCalls(e.name) = {}

\* a run that skipped one component, configured a second after installing
\* it, and did not configure a third whose install failed
C30_Witness ==
    /\ Returned
    /\ \E a, b, c \in Range(ordered) :
          /\ Outcome(a) = "skipped"   /\ ConfigureCalls(a) = {}
          /\ Outcome(b) = "success"   /\ ConfigureCalls(b) # {}
          /\ Outcome(c) = "failed"    /\ ConfigureCalls(c) = {}

\* C31: if the user declines the confirmation prompt, the run ends there:
\* the execution loop is not entered, no install, configure or uninstall is
\* called on any component, and from the start of the program to its end
\* every component reports the status it had.
C31_DeclineChangesNothing ==
    /\ [](lastCall.answer = "n" =>
             /\ idx = 0
             /\ events = <<>>
             /\ pc \in {"report", "done"}
             /\ result = "False")
    /\ [][(idx' = 0 \/ lastCall'.answer = "n") =>
             \A i \in DOMAIN ALL_COMPONENTS :
                 check_installed(ALL_COMPONENTS[i].name, fs')
                     = check_installed(ALL_COMPONENTS[i].name, fs)]_vars

\* a run of --full declined at the prompt on a machine where xrlinuxdriver
\* is installed and the rest is not: it returned False and called nothing
C31_Witness ==
    /\ Returned
    /\ lastCall.answer = "n"
    /\ args.full
    /\ Len(ordered) = Len(ALL_COMPONENTS)
    /\ check_installed("xrlinuxdriver", fs) = "INSTALLED"
    /\ check_installed("monado", fs) = "NOT_INSTALLED"
    /\ events = <<>>
    /\ result = "False"

=============================================================================
